---- MODULE Spec2Model ----
(***************************************************************************)
(* Q-learning with linear function approximation (q_learning_main.py):     *)
(* the Estimator (one SGD model per action), the epsilon-greedy and greedy *)
(* policies, and the three episodic training loops q_learning,             *)
(* q_learning_best_policy and q_learning_testing_rewards.                  *)
(*                                                                         *)
(* Numbers.  Exploration rates and probabilities are exact rationals: a    *)
(* rate is a pair <<numerator, denominator>>, a probability vector is a    *)
(* vector of numerators over one common denominator.  Environment states   *)
(* are 0..NStates-1; the environment, the scaler/featurizer and the SGD    *)
(* regressor are collaborators outside the repository and are represented  *)
(* by small integer stand-ins (see featurize_state, partial_fit).          *)
(***************************************************************************)
EXTENDS Integers, Sequences, FiniteSets, TLC

VARIABLES
    variant,        \* which training function runs
    env,            \* the environment: [nA, limit, states, reset, rewards]
    reward_fn,      \* the injected reward function, States -> Int
    epsilon,        \* argument epsilon, a rational <<n, d>>
    epsilon_decay,  \* argument epsilon_decay, a rational <<n, d>>
    models,         \* estimator.models : 0..len-1 -> model
    i,              \* episode index of the for loop
    d,              \* the loop variable / counter d
    state,          \* the local variable state
    done,           \* the local variable done
    pc,             \* position in the training function
    steps,          \* env.step calls made in the current episode
    updates,        \* Estimator.update calls made in the current episode
    sel,            \* the last epsilon_greedy_policy call and the action drawn
    td,             \* the last Estimator.update call and its TD target
    ret             \* the last call made on the Estimator / policy interface

vars == <<variant, env, reward_fn, epsilon, epsilon_decay, models, i, d, state,
          done, pc, steps, updates, sel, td, ret>>

----------------------------------------------------------------------------
(* Program constants *)

\* for _ in range(3): the number of models the constructor builds
NumModels == 3
\* for d in range(2000) / while not done and d<=2000
StepCap == 2000
\* discount_factor=1.0, the default of all three training functions
discount_factor == 1
\* the default a=None of Estimator.predict
None == -1

(* Bounds of the model *)

\* environment states are 0..NStates-1
NStates == 2
\* model weights are kept within -WMax..WMax
WMax == 1
\* environments have 2..MaxNA actions
MaxNA == 4
\* num_episodes
NumEpisodes == 2
\* a time-limited environment signals done on step MaxEnvSteps at the latest
MaxEnvSteps == 2
\* update calls made on the estimator interface
MaxApiUpdates == 1

\* counters of the uncapped loop: values above DMax are identified with DMax - 1
\* or DMax, whichever has the same parity
DMax == StepCap + 2

States == 0..(NStates - 1)
Variants == {"q_learning", "q_learning_best_policy", "q_learning_testing_rewards"}

----------------------------------------------------------------------------
(* Exact rational arithmetic *)

RECURSIVE IPow(_, _)
IPow(b, k) == IF k = 0 THEN 1 ELSE b * IPow(b, k - 1)

RMul(x, y) == <<x[1] * y[1], x[2] * y[2]>>
RPow(x, k) == <<IPow(x[1], k), IPow(x[2], k)>>
RLeq(x, y) == x[1] * y[2] <= y[1] * x[2]
REq(x, y) == x[1] * y[2] = y[1] * x[2]

Sgn(x) == IF x > 0 THEN 1 ELSE IF x < 0 THEN -1 ELSE 0
Clamp(x) == IF x > WMax THEN WMax ELSE IF x < -WMax THEN -WMax ELSE x

RECURSIVE DotTo(_, _, _)
DotTo(w, x, k) == IF k < 0 THEN 0 ELSE w[k] * x[k] + DotTo(w, x, k - 1)
Dot(w, x) == DotTo(w, x, NStates - 1)

\* np.max over a vector
Max(q) == CHOOSE v \in {q[k] : k \in DOMAIN q} : \A k \in DOMAIN q : q[k] <= v

\* np.argmax: the first index holding the maximum
argmax(q) ==
    CHOOSE k \in DOMAIN q :
        /\ \A j \in DOMAIN q : q[j] <= q[k]
        /\ \A j \in DOMAIN q : j < k => q[j] < q[k]

----------------------------------------------------------------------------
(* Estimator *)

\* scaler.transform then featurizer.transform: a fixed feature vector per state
featurize_state(s) == [k \in States |-> IF k <= s THEN 1 ELSE 0]

\* SGDRegressor(...): an unfitted linear model with zero weights
SGDRegressor(ident) == [id |-> ident, w |-> [k \in States |-> 0], fitted |-> FALSE]

\* model.predict([feature_vec])
model_predict(m, x) == Dot(m.w, x)

\* model.partial_fit([x], [y]): one in-place gradient step towards y
partial_fit(m, x, y) ==
    LET g == Sgn(y - model_predict(m, x))
    IN  [m EXCEPT !.w = [k \in States |-> Clamp(m.w[k] + g * x[k])],
                  !.fitted = TRUE]

\* Estimator.__init__: one warmed-up model per iteration of range(3)
Estimator(reset_state) ==
    [a \in 0..(NumModels - 1) |->
        partial_fit(SGDRegressor(a + 1), featurize_state(reset_state), 0)]

\* Estimator.predict(s, a)
predict(ms, s, a) ==
    LET feature_vec == featurize_state(s)
    IN  IF a = None \/ a = 0     \* `if not a`
        THEN [kind |-> "vector",
              val |-> [k \in DOMAIN ms |-> model_predict(ms[k], feature_vec)]]
        ELSE IF a \in DOMAIN ms
             THEN [kind |-> "scalar", val |-> model_predict(ms[a], feature_vec)]
             ELSE [kind |-> "IndexError", val |-> 0]

\* update that fits a new regressor in place of the action's model
update_refit(ms, s, a, y) ==
    IF a \in DOMAIN ms
    THEN [kind |-> "ok",
          models |-> [ms EXCEPT ![a] = partial_fit(SGDRegressor(0), featurize_state(s), y)]]
    ELSE [kind |-> "IndexError", models |-> ms]

\* Estimator.update(s, a, y)
update(ms, s, a, y) ==
    IF a \in DOMAIN ms
    THEN [kind |-> "ok",
          models |-> [ms EXCEPT ![a] = partial_fit(@, featurize_state(s), y)]]
    ELSE [kind |-> "IndexError", models |-> ms]

----------------------------------------------------------------------------
(* Policies *)

\* epsilon_greedy_policy with `A[best_action] = 1 - epsilon` for `+=`
epsilon_greedy_policy_assign(observation, ms, eps, nA) ==
    LET A == [k \in 0..(nA - 1) |-> eps[1]]
        q_values == predict(ms, observation, None).val
        best_action == argmax(q_values)
    IN  IF best_action \in DOMAIN A
        THEN [kind |-> "dist", den |-> eps[2] * nA,
              num |-> [A EXCEPT ![best_action] = (eps[2] - eps[1]) * nA]]
        ELSE [kind |-> "IndexError", den |-> eps[2] * nA, num |-> A]

\* epsilon_greedy_policy(observation, estimator, epsilon, nA)
epsilon_greedy_policy(observation, ms, eps, nA) ==
    LET A == [k \in 0..(nA - 1) |-> eps[1]]     \* np.ones(nA) * epsilon / nA
        q_values == predict(ms, observation, None).val
        best_action == argmax(q_values)
    IN  IF best_action \in DOMAIN A             \* A[best_action] += 1 - epsilon
        THEN [kind |-> "dist", den |-> eps[2] * nA,
              num |-> [A EXCEPT ![best_action] = @ + (eps[2] - eps[1]) * nA]]
        ELSE [kind |-> "IndexError", den |-> eps[2] * nA, num |-> A]

\* greedy_policy(estimator, nA)(observation)
greedy_policy(ms, nA, observation) ==
    LET A == [k \in 0..(nA - 1) |-> 0]          \* np.zeros(nA)
        q_values == predict(ms, observation, None).val
        best_action == argmax(q_values)
    IN  IF best_action \in DOMAIN A             \* A[best_action] += 1.0
        THEN [kind |-> "dist", den |-> 1, num |-> [A EXCEPT ![best_action] = @ + 1]]
        ELSE [kind |-> "IndexError", den |-> 1, num |-> A]

\* np.random.choice without p=prob: any action
random_choice_uniform(prob) == DOMAIN prob.num

\* np.random.choice(np.arange(len(prob)), p=prob): any action of positive probability
random_choice(prob) == {k \in DOMAIN prob.num : prob.num[k] > 0}

----------------------------------------------------------------------------
(* The environment *)

\* env.action_space.n
action_space_n == env.nA

\* the state env.step(action) leads to from s: a deterministic transition
\* function (a set, empty for no state; the one-state environment stays put)
EnvStep(s, action) ==
    IF Cardinality(env.states) = 1
    THEN env.states
    ELSE {e \in env.states : e = (s + action + 1) % NStates}

\* the done flags env.step may return on the k-th step of an episode: anything,
\* except that a time-limited environment signals done from step env.limit on
EnvDone(k) == IF env.limit > 0 /\ k >= env.limit THEN {TRUE} ELSE BOOLEAN

----------------------------------------------------------------------------
(* The training loops.  One action is one pass through a loop body. *)

\* (epsilon * epsilon_decay)**i
EpsEff_pow == RPow(RMul(epsilon, epsilon_decay), i)

\* epsilon * epsilon_decay**i
EpsEff == RMul(epsilon, RPow(epsilon_decay, i))

\* reward + discount_factor * np.max(q_values_next)
TdTarget(reward, q_values_next) == reward + discount_factor * Max(q_values_next)

\* reward = reward_fn(next_state)
InjectedReward_next(s, next_state) == reward_fn[next_state]

\* reward = reward_fn(state): the injected reward, of the state the action was chosen in
InjectedReward(s, next_state) == reward_fn[s]

\* the break on done left out
Break_never(dn) == FALSE

\* if done: break
Break(dn) == dn

Selected(eps, action) ==
    [valid |-> TRUE, i |-> i, eps |-> eps, action |-> action,
     best |-> argmax(predict(models, state, None).val)]

TdCall(action, next_state, reward, native, q_values_next) ==
    [valid |-> TRUE, pre |-> state, a |-> action, reward |-> reward,
     native |-> native, qmax |-> Max(q_values_next),
     y |-> TdTarget(reward, q_values_next)]

\* n + 1 on such a counter
Inc(n) == IF n < DMax THEN n + 1 ELSE DMax - 1

\* for i in range(num_episodes): state = env.reset(); done = False; (d = 0)
ForEpisode ==
    /\ pc = "for_i"
    /\ i < NumEpisodes
    /\ state' = env.reset
    /\ done' = FALSE
    /\ d' = IF variant = "q_learning" THEN d ELSE 0
    /\ steps' = 0
    /\ updates' = 0
    /\ pc' = "loop"
    /\ UNCHANGED <<variant, env, reward_fn, epsilon, epsilon_decay, models, i,
                   sel, td, ret>>

\* the for loop over the episodes is exhausted: return
Return ==
    /\ pc = "for_i"
    /\ i >= NumEpisodes
    /\ pc' = "return"
    /\ UNCHANGED <<variant, env, reward_fn, epsilon, epsilon_decay, models, i, d,
                   state, done, steps, updates, sel, td, ret>>

\* q_learning: one pass of `for d in range(2000)`
q_learning ==
    /\ variant = "q_learning"
    /\ pc = "loop"
    /\ steps < StepCap
    /\ d' = steps
    /\ LET eps == EpsEff
           prob == epsilon_greedy_policy(state, models, eps, action_space_n)
       IN  IF prob.kind # "dist"
           THEN /\ pc' = "IndexError"
                /\ UNCHANGED <<models, state, done, steps, updates, sel, td>>
           ELSE \E action \in random_choice(prob) :
                \E next_state \in EnvStep(state, action),
                   native \in env.rewards, dn \in EnvDone(steps + 1) :
                /\ sel' = Selected(eps, action)
                /\ steps' = steps + 1
                /\ done' = dn
                /\ IF Break(dn)
                   THEN /\ pc' = "end"                       \* break
                        /\ UNCHANGED <<models, state, updates, td>>
                   ELSE LET reward == InjectedReward(state, next_state)
                            q_values_next == predict(models, next_state, None).val
                            td_target == TdTarget(reward, q_values_next)
                            upd == update(models, state, action, td_target)
                        IN  /\ updates' = updates + 1
                            /\ td' = TdCall(action, next_state, reward, native,
                                            q_values_next)
                            /\ IF upd.kind = "ok"
                               THEN /\ models' = upd.models
                                    /\ state' = next_state
                                    /\ pc' = "loop"
                               ELSE /\ pc' = "IndexError"
                                    /\ UNCHANGED <<models, state>>
    /\ UNCHANGED <<variant, env, reward_fn, epsilon, epsilon_decay, i, ret>>

\* q_learning_best_policy: one pass of `while not done`
q_learning_best_policy ==
    /\ variant = "q_learning_best_policy"
    /\ pc = "loop"
    /\ ~done
    /\ LET eps == EpsEff
           prob == epsilon_greedy_policy(state, models, eps, action_space_n)
       IN  IF prob.kind # "dist"
           THEN /\ pc' = "IndexError"
                /\ UNCHANGED <<models, state, done, d, steps, updates, sel, td>>
           ELSE \E action \in random_choice(prob) :
                \E next_state \in EnvStep(state, action),
                   reward \in env.rewards, dn \in EnvDone(steps + 1) :
                LET q_values_next == predict(models, next_state, None).val
                    td_target == TdTarget(reward, q_values_next)
                    upd == update(models, state, action, td_target)
                IN  /\ sel' = Selected(eps, action)
                    /\ steps' = Inc(steps)
                    /\ done' = dn
                    /\ updates' = Inc(updates)
                    /\ td' = TdCall(action, next_state, reward, reward, q_values_next)
                    /\ IF upd.kind = "ok"
                       THEN /\ models' = upd.models
                            /\ state' = next_state
                            /\ d' = Inc(d)
                            /\ pc' = "loop"
                       ELSE /\ pc' = "IndexError"
                            /\ UNCHANGED <<models, state, d>>
    /\ UNCHANGED <<variant, env, reward_fn, epsilon, epsilon_decay, i, ret>>

\* q_learning_testing_rewards: one pass of `while not done and d<=2000`
q_learning_testing_rewards ==
    /\ variant = "q_learning_testing_rewards"
    /\ pc = "loop"
    /\ ~done /\ d <= StepCap
    /\ LET eps == EpsEff
           prob == epsilon_greedy_policy(state, models, eps, action_space_n)
       IN  IF prob.kind # "dist"
           THEN /\ pc' = "IndexError"
                /\ UNCHANGED <<models, state, done, d, steps, updates, sel, td>>
           ELSE \E action \in random_choice(prob) :
                \E next_state \in EnvStep(state, action),
                   native \in env.rewards, dn \in EnvDone(steps + 1) :
                LET reward == InjectedReward(state, next_state)
                    q_values_next == predict(models, next_state, None).val
                    td_target == TdTarget(reward, q_values_next)
                    upd == update(models, state, action, td_target)
                IN  /\ sel' = Selected(eps, action)
                    /\ steps' = steps + 1
                    /\ done' = dn
                    /\ updates' = updates + 1
                    /\ td' = TdCall(action, next_state, reward, native, q_values_next)
                    /\ IF upd.kind = "ok"
                       THEN /\ models' = upd.models
                            /\ state' = next_state
                            /\ d' = d + 1
                            /\ pc' = "loop"
                       ELSE /\ pc' = "IndexError"
                            /\ UNCHANGED <<models, state, d>>
    /\ UNCHANGED <<variant, env, reward_fn, epsilon, epsilon_decay, i, ret>>

\* the condition that keeps the inner loop of the running variant going
LoopCondition ==
    CASE variant = "q_learning" -> steps < StepCap
      [] variant = "q_learning_best_policy" -> ~done
      [] variant = "q_learning_testing_rewards" -> ~done /\ d <= StepCap

\* the inner loop ends because its condition is false
LoopExit ==
    /\ pc = "loop"
    /\ ~LoopCondition
    /\ pc' = "end"
    /\ UNCHANGED <<variant, env, reward_fn, epsilon, epsilon_decay, models, i, d,
                   state, done, steps, updates, sel, td, ret>>

\* after the inner loop: the optional print (and d_vec[i] = d), then the next i
EndEpisode ==
    /\ pc = "end"
    /\ i' = i + 1
    /\ pc' = "for_i"
    /\ UNCHANGED <<variant, env, reward_fn, epsilon, epsilon_decay, models, d,
                   state, done, steps, updates, sel, td, ret>>

----------------------------------------------------------------------------
(* Initial states: the arguments of a training call, the estimator fresh. *)

NoSel == [valid |-> FALSE, i |-> 0, eps |-> <<0, 1>>, action |-> 0, best |-> 0]
NoTd == [valid |-> FALSE, pre |-> 0, a |-> 0, reward |-> 0, native |-> 0,
         qmax |-> 0, y |-> 0]
NoRet == [op |-> "none"]

\* rewards the environments hand out
NativeRewards == {-1}
\* injected reward functions: the constant 0, and one that tells the states apart
RewardFns == {[s \in States |-> 0], [s \in States |-> s]}
\* <<epsilon, epsilon_decay>> where the environment has as many actions as the
\* estimator has models: the defaults 0 and 1, and 1 halved per episode
Exploration == {<<<<0, 1>>, <<1, 1>>>>, <<<<1, 1>>, <<1, 2>>>>}
\* <<epsilon, epsilon_decay>> for the other environments: 1/2, not decayed
ExplorationOther == {<<<<1, 2>>, <<1, 1>>>>}

\* time-limited environments with 2..MaxNA actions
LimitedEnvs ==
    {[nA |-> n, limit |-> MaxEnvSteps, states |-> States, reset |-> 0,
      rewards |-> NativeRewards] :
        n \in 2..MaxNA}
\* an environment that may never signal done
EndlessEnv ==
    [nA |-> NumModels, limit |-> 0, states |-> States, reset |-> 0,
     rewards |-> NativeRewards]

Start ==
    /\ variant \in Variants
    /\ models = Estimator(env.reset)
    /\ i = 0 /\ d = 0 /\ state = 0 /\ done = FALSE
    /\ pc = "for_i"
    /\ steps = 0 /\ updates = 0
    /\ sel = NoSel /\ td = NoTd /\ ret = NoRet

InitLimited ==
    /\ env \in LimitedEnvs
    /\ reward_fn \in RewardFns
    /\ \E e \in (IF env.nA = NumModels THEN Exploration ELSE ExplorationOther) :
            epsilon = e[1] /\ epsilon_decay = e[2]
    /\ Start

InitEndless ==
    /\ env = EndlessEnv
    /\ reward_fn \in RewardFns
    /\ epsilon = <<0, 1>>
    /\ epsilon_decay = <<1, 1>>
    /\ Start

Init == InitLimited \/ InitEndless

Next ==
    \/ ForEpisode
    \/ Return
    \/ q_learning
    \/ q_learning_best_policy
    \/ q_learning_testing_rewards
    \/ LoopExit
    \/ EndEpisode

Spec == Init /\ [][Next]_vars

\* the program keeps running: a step that can be taken is taken
FairSpec == InitEndless /\ [][Next]_vars /\ WF_vars(Next)

----------------------------------------------------------------------------
(* The Estimator and policy interface, called with arbitrary arguments on an  *)
(* estimator that has received up to MaxApiUpdates updates.                   *)

ActionArgs == 0..(MaxNA - 1)
Targets == (-WMax)..WMax
Epsilons == {<<0, 1>>, <<1, 2>>, <<1, 1>>}

ApiFrame == UNCHANGED <<variant, env, reward_fn, epsilon, epsilon_decay, i, d,
                        state, done, pc, steps, sel, td>>

\* estimator.predict(s) and estimator.predict(s, a)
ApiPredict ==
    /\ pc = "api"
    /\ \E s \in States, a \in ActionArgs \cup {None} :
        ret' = [op |-> "predict", s |-> s, a |-> a, res |-> predict(models, s, a)]
    /\ UNCHANGED <<models, updates>>
    /\ ApiFrame

\* estimator.update(s, a, y)
ApiUpdate ==
    /\ pc = "api"
    /\ updates < MaxApiUpdates
    /\ \E s \in States, a \in ActionArgs, y \in Targets :
        LET upd == update(models, s, a, y)
        IN  /\ models' = upd.models
            /\ ret' = [op |-> "update", s |-> s, a |-> a, y |-> y, res |-> upd.kind]
    /\ updates' = updates + 1
    /\ ApiFrame

\* epsilon_greedy_policy(observation, estimator, epsilon, nA)
ApiEpsilonGreedy ==
    /\ pc = "api"
    /\ \E s \in States, eps \in Epsilons, nA \in 2..MaxNA :
        ret' = [op |-> "epsilon_greedy_policy", s |-> s, eps |-> eps, nA |-> nA,
                res |-> epsilon_greedy_policy(s, models, eps, nA)]
    /\ UNCHANGED <<models, updates>>
    /\ ApiFrame

\* greedy_policy(estimator, nA)(observation)
ApiGreedy ==
    /\ pc = "api"
    /\ \E s \in States, nA \in 2..MaxNA :
        ret' = [op |-> "greedy_policy", s |-> s, nA |-> nA,
                res |-> greedy_policy(models, nA, s)]
    /\ UNCHANGED <<models, updates>>
    /\ ApiFrame

InitApi ==
    /\ variant = "none"
    /\ env \in LimitedEnvs
    /\ reward_fn = [s \in States |-> 0]
    /\ epsilon = <<0, 1>> /\ epsilon_decay = <<1, 1>>
    /\ models = Estimator(env.reset)
    /\ i = 0 /\ d = 0 /\ state = 0 /\ done = FALSE
    /\ pc = "api"
    /\ steps = 0 /\ updates = 0
    /\ sel = NoSel /\ td = NoTd /\ ret = NoRet

NextApi == ApiPredict \/ ApiUpdate \/ ApiEpsilonGreedy \/ ApiGreedy

SpecApi == InitApi /\ [][NextApi]_vars

----------------------------------------------------------------------------
(* Properties *)

Capped == {"q_learning", "q_learning_testing_rewards"}

\* C1: in q_learning and q_learning_testing_rewards no episode makes more than
\* 2000 env.step calls, whatever the environment does.
C1_StepCap == variant \in Capped => steps <= StepCap

\* C2: predict(s, a) with an action index a given, 0 included, returns the single
\* prediction of model a.
C2_PredictExplicitAction ==
    (ret.op = "predict" /\ ret.a \in DOMAIN models) =>
        /\ ret.res.kind = "scalar"
        /\ ret.res.val = model_predict(models[ret.a], featurize_state(ret.s))

\* C3: the estimator owns exactly nA = env.action_space.n fitted models, and the
\* argmax of its predictions always indexes the length-nA probability vector (no
\* index error in the policy or in update).
C3_ModelsPerAction ==
    /\ DOMAIN models = 0..(action_space_n - 1)
    /\ \A a \in DOMAIN models : models[a].fitted
    /\ \A s \in env.states :
        argmax(predict(models, s, None).val) \in 0..(action_space_n - 1)
    /\ pc # "IndexError"

\* C4: in every variant each episode ends, also when the environment never signals
\* done, and the run goes through all num_episodes episodes and returns.
C4_TrainingReturns == <>(pc = "return")


(* rationals for the statements about probabilities *)
RAdd(x, y) == <<x[1] * y[2] + y[1] * x[2], x[2] * y[2]>>
RSub(x, y) == <<x[1] * y[2] - y[1] * x[2], x[2] * y[2]>>
ROne == <<1, 1>>
RZero == <<0, 1>>

RECURSIVE SumTo(_, _)
SumTo(f, k) == IF k < 0 THEN 0 ELSE f[k] + SumTo(f, k - 1)

\* the predicted values of all models at s
QValues(s) == [a \in DOMAIN models |-> model_predict(models[a], featurize_state(s))]
\* the lowest index among the actions with the highest predicted value
FirstBest(q) ==
    LET m == Max(q)
    IN  CHOOSE k \in DOMAIN q :
            /\ q[k] = m
            /\ ~ \E j \in DOMAIN q : j < k /\ q[j] = m

\* entry k of a returned probability vector
Entry(p, k) == <<p.num[k], p.den>>
\* epsilon / nA
LowMass(eps, nA) == <<eps[1], eps[2] * nA>>
\* epsilon / nA + (1 - epsilon)
HighMass(eps, nA) == RAdd(LowMass(eps, nA), RSub(ROne, eps))

\* what C5 says of every returned vector, but for the number of entries holding
\* epsilon/nA + (1 - epsilon)
C5_Shape(p, eps, nA, best) ==
    /\ DOMAIN p.num = 0..(nA - 1)
    /\ \A k \in DOMAIN p.num : RLeq(LowMass(eps, nA), Entry(p, k))
    /\ SumTo(p.num, nA - 1) = p.den
    /\ REq(Entry(p, best), HighMass(eps, nA))
    /\ \A k \in DOMAIN p.num : k # best => REq(Entry(p, k), LowMass(eps, nA))

EpsGreedyReturned == ret.op = "epsilon_greedy_policy" /\ ret.res.kind = "dist"

\* C5 as claimed: the vector epsilon_greedy_policy returns has length nA, entries
\* >= epsilon/nA, sum 1, and exactly one entry equal to epsilon/nA + (1 - epsilon),
\* the one at the first index of the highest predicted value; the others are
\* epsilon/nA.
C5_ExactlyOneHigh ==
    EpsGreedyReturned =>
        /\ C5_Shape(ret.res, ret.eps, ret.nA, FirstBest(QValues(ret.s)))
        /\ Cardinality({k \in DOMAIN ret.res.num :
                REq(Entry(ret.res, k), HighMass(ret.eps, ret.nA))}) = 1

\* C5 amended: as claimed, with exactly one entry holding epsilon/nA + (1 - epsilon)
\* when epsilon < 1; with epsilon = 1 all nA entries hold it (the uniform vector).
\* A vector is returned exactly when the first index of the highest predicted
\* value is below nA; otherwise the call raises IndexError.
C5_EpsilonGreedyVector ==
    ret.op = "epsilon_greedy_policy" =>
        /\ ret.res.kind = "dist" <=> FirstBest(QValues(ret.s)) < ret.nA
        /\ ret.res.kind # "dist" => ret.res.kind = "IndexError"
        /\ ret.res.kind = "dist" =>
            /\ C5_Shape(ret.res, ret.eps, ret.nA, FirstBest(QValues(ret.s)))
            /\ Cardinality({k \in DOMAIN ret.res.num :
                    REq(Entry(ret.res, k), HighMass(ret.eps, ret.nA))})
                 = IF REq(ret.eps, ROne) THEN ret.nA ELSE 1

\* a vector returned for 0 < epsilon < 1 where the highest predicted value is tied
\* and its first index is not 0
C5_Witness ==
    /\ EpsGreedyReturned
    /\ ret.eps = <<1, 2>>
    /\ ret.nA = NumModels
    /\ LET q == QValues(ret.s)
       IN  /\ FirstBest(q) = 1
           /\ q[2] = q[1]
    /\ ret.res.num[1] > ret.res.num[2]

\* C6: with an injected reward function the reward in every TD target is reward_fn
\* of the state the action was chosen in, never the environment's reward; in
\* q_learning_best_policy it is the environment's reward.  The target is the
\* reward plus discount_factor times the highest prediction at next_state.
C6_RewardSource ==
    td.valid =>
        /\ td.reward = IF variant = "q_learning_best_policy"
                       THEN td.native
                       ELSE reward_fn[td.pre]
        /\ td.y = td.reward + discount_factor * td.qmax

\* an update of q_learning whose injected reward differs from the environment's
\* and from reward_fn of the state reached
C6_Witness ==
    /\ td.valid
    /\ variant = "q_learning"
    /\ td.pre = 1
    /\ td.reward = 1
    /\ td.native = -1
    /\ reward_fn[state] = 0
    /\ pc = "loop"

\* C7: update(s, a, y) changes the model of action a only, by one partial_fit;
\* a pass that makes no update call (only predict and the policy) changes no
\* model; the models keep their number and identity.
C7_UpdateFrame ==
    [][ /\ DOMAIN models' = DOMAIN models
        /\ \A k \in DOMAIN models : models'[k].id = models[k].id
        /\ \A k \in DOMAIN models :
              models'[k] # models[k] =>
                /\ td'.valid
                /\ k = td'.a
                /\ models'[k] = partial_fit(models[k], featurize_state(td'.pre), td'.y)
        /\ (pc = "loop" /\ pc' = "end") => models' = models
      ]_vars

\* an update has changed the model of action 1 and left the others as constructed
C7_Witness ==
    /\ td.valid /\ td.a = 1
    /\ models[1].w # [k \in States |-> 0]
    /\ models[0].w = [k \in States |-> 0]
    /\ models[2].w = [k \in States |-> 0]

\* two returned vectors are the same distribution
SameDist(p, q) ==
    /\ DOMAIN p.num = DOMAIN q.num
    /\ \A k \in DOMAIN p.num : REq(Entry(p, k), Entry(q, k))

\* C8: with epsilon = 0 epsilon_greedy_policy returns what greedy_policy returns,
\* probability 1 on the first-index argmax and 0 elsewhere, and the action drawn
\* at a step with rate 0 is that argmax: it is determined by the estimator and
\* the state.
C8_GreedyAtZero ==
    /\ \A s \in env.states :
        LET e == epsilon_greedy_policy(s, models, RZero, action_space_n)
            g == greedy_policy(models, action_space_n, s)
            best == FirstBest(QValues(s))
        IN  /\ e.kind = g.kind
            /\ e.kind = "dist" =>
                /\ SameDist(e, g)
                /\ \A k \in DOMAIN e.num :
                      REq(Entry(e, k), IF k = best THEN ROne ELSE RZero)
                /\ random_choice(e) = {best}
    /\ (sel.valid /\ REq(sel.eps, RZero)) => sel.action = sel.best

\* an action other than 0 was drawn at rate 0
C8_Witness ==
    /\ sel.valid
    /\ REq(sel.eps, RZero)
    /\ sel.action = 2
    /\ FirstBest(QValues(state)) # 2

\* epsilon0 * decay^k
EpsAt(k) == <<epsilon[1] * IPow(epsilon_decay[1], k), epsilon[2] * IPow(epsilon_decay[2], k)>>

\* C9: the rate passed to epsilon_greedy_policy in episode i is epsilon * decay^i,
\* lies in [0, 1] and is no larger than the rate of any earlier episode.
C9_EpsilonDecay ==
    sel.valid =>
        /\ REq(sel.eps, EpsAt(sel.i))
        /\ RLeq(RZero, sel.eps) /\ RLeq(sel.eps, ROne)
        /\ \A j \in 0..sel.i : RLeq(sel.eps, EpsAt(j))

\* in episode 1 the rate 1 has decayed to 1/2
C9_Witness ==
    /\ sel.valid /\ sel.i = 1
    /\ epsilon = <<1, 1>>
    /\ REq(sel.eps, <<1, 2>>)

\* the update calls of an episode against its env.step calls
C10_Counts ==
    /\ (variant = "q_learning" /\ done) => updates = steps - 1
    /\ ~(variant = "q_learning" /\ done) => updates = steps
    /\ (variant = "q_learning" /\ pc = "end" /\ ~done) => steps = StepCap

\* one env.step and what follows it
C10_Step ==
    (steps' # steps /\ steps' # 0) =>
        IF variant = "q_learning" /\ done'
        THEN updates' = updates /\ td' = td /\ models' = models
        ELSE /\ updates' # updates
             /\ td'.valid
             /\ td'.pre = state
             /\ td'.a = sel'.action
             /\ td'.y = td'.reward + discount_factor * td'.qmax
             /\ pc' = "loop" =>
                  /\ td'.qmax = Max(predict(models, state', None).val)
                  /\ models' = update(models, state, sel'.action, td'.y).models

\* C10: every env.step without done is followed by one update call on the state
\* left and the action taken, with target reward + discount * max prediction at
\* next_state; on done q_learning makes none, the other two make one; so an
\* episode has as many updates as steps, but steps - 1 in q_learning ended by done
\* (and 2000 of each in q_learning ended by the cap).
C10_UpdatePerStep == [](C10_Counts) /\ [][C10_Step]_vars

\* a q_learning episode ended by the cap, not by done
C10_Witness ==
    /\ variant = "q_learning" /\ pc = "end"
    /\ ~done /\ steps = StepCap /\ updates = StepCap

====
